---- MODULE Spec2Model ----
(***************************************************************************)
(* Model of the physical-optimizer sub-rule                                *)
(* replace_with_order_preserving_variants: the top-down step               *)
(* propagate_order_maintaining_connections_down, the bottom-up step        *)
(* replace_with_order_preserving_variants_up and the payload-threading     *)
(* traversal that runs them over an execution plan tree.                   *)
(*                                                                         *)
(* An execution plan is a record                                           *)
(*   [kind, expr, scheme, n, flag, children]                               *)
(* kind     : the operator                                                 *)
(* expr     : sort keys (SortExec, SortPreservingMergeExec) or the         *)
(*            declared output ordering (a source)                          *)
(* scheme,n : the partitioning (RepartitionExec) or the partition count    *)
(*            (a source)                                                   *)
(* flag     : preserve_partitioning (SortExec), preserve_order             *)
(*            (RepartitionExec), infinite_source (a source)                *)
(* fault names the constructor that returns Err in this run, if any.       *)
(* An Option<T> is a sequence of length 0 (None) or 1 (Some).              *)
(***************************************************************************)
EXTENDS Naturals, Sequences, FiniteSets

VARIABLES input, prefer_existing_sort, is_spr_better, is_spm_better,
          pc, cur, curConn, curPath, stack, log, result, rootAlt, fault

vars == <<input, prefer_existing_sort, is_spr_better, is_spm_better,
          pc, cur, curConn, curPath, stack, log, result, rootAlt, fault>>

-----------------------------------------------------------------------------
(* Bounds of the enumerated input plans. *)

MaxDepth == 2

MaxJoinDepth == 1

(* Program constants taken from the test fixtures. *)

NParts == 8

SchemaWidth == 3

ColA == 0

ColC == 1

-----------------------------------------------------------------------------
(* Option values. *)

None == <<>>

Some(x) == <<x>>

is_some(o) == Len(o) > 0

unwrap_or(o, d) == IF is_some(o) THEN o[1] ELSE d

-----------------------------------------------------------------------------
(* Sort keys and plan constructors. *)

sort_expr_options(col, options) == [col |-> col, options |-> options]

sort_expr(col) == sort_expr_options(col, "ASC NULLS LAST")

sort_expr_default(col) == sort_expr_options(col, "ASC")

Node(kind, expr, scheme, n, flag, children) ==
    [kind |-> kind, expr |-> expr, scheme |-> scheme, n |-> n,
     flag |-> flag, children |-> children]

SourceExec(ordering, parts, infinite) ==
    Node("Source", ordering, "Unknown", parts, infinite, <<>>)

FilterExec(child) == Node("Filter", <<>>, "", 0, FALSE, <<child>>)

CoalesceBatchesExec(child) == Node("CoalesceBatches", <<>>, "", 0, FALSE, <<child>>)

CoalescePartitionsExec(child) == Node("CoalescePartitions", <<>>, "", 0, FALSE, <<child>>)

SortExec(exprs, child, preserve_partitioning) ==
    Node("Sort", exprs, "", 0, preserve_partitioning, <<child>>)

SortPreservingMergeExec(exprs, child) ==
    Node("SortPreservingMerge", exprs, "", 0, FALSE, <<child>>)

HashJoinExec(left, right) == Node("HashJoin", <<>>, "", 0, FALSE, <<left, right>>)

children(plan) == plan.children

is_sort(plan) == plan.kind = "Sort"

is_repartition(plan) == plan.kind = "Repartition"

is_coalesce_partitions(plan) == plan.kind = "CoalescePartitions"

-----------------------------------------------------------------------------
(* Capability queries on plan nodes. *)

RECURSIVE partition_count(_)
partition_count(plan) ==
    CASE plan.kind = "Source" -> plan.n
      [] plan.kind = "Repartition" -> plan.n
      [] plan.kind = "CoalescePartitions" -> 1
      [] plan.kind = "SortPreservingMerge" -> 1
      [] plan.kind = "Sort" ->
            IF plan.flag THEN partition_count(plan.children[1]) ELSE 1
      [] OTHER -> partition_count(plan.children[1])

output_partitioning(plan) ==
    IF is_repartition(plan)
    THEN [scheme |-> plan.scheme, n |-> plan.n]
    ELSE [scheme |-> "Unknown", n |-> partition_count(plan)]

maintains_input_order(plan) ==
    CASE plan.kind = "Source" -> <<>>
      [] plan.kind = "Repartition" ->
            <<plan.flag \/ partition_count(plan.children[1]) <= 1>>
      [] plan.kind = "CoalescePartitions" -> <<FALSE>>
      [] plan.kind = "Sort" -> <<FALSE>>
      [] plan.kind = "HashJoin" -> <<FALSE, TRUE>>
      [] OTHER -> <<TRUE>>

RECURSIVE schema_width(_)
schema_width(plan) ==
    CASE plan.kind = "Source" -> SchemaWidth
      [] plan.kind = "HashJoin" ->
            schema_width(plan.children[1]) + schema_width(plan.children[2])
      [] OTHER -> schema_width(plan.children[1])

add_offset(ordering, offset) ==
    [i \in 1..Len(ordering) |->
        [ordering[i] EXCEPT !.col = ordering[i].col + offset]]

RECURSIVE output_ordering(_)
output_ordering(plan) ==
    CASE plan.kind = "Source" ->
            IF plan.expr = <<>> THEN None ELSE Some(plan.expr)
      [] plan.kind = "Sort" -> Some(plan.expr)
      [] plan.kind = "CoalescePartitions" -> None
      [] plan.kind = "Repartition" ->
            IF maintains_input_order(plan)[1]
            THEN output_ordering(plan.children[1]) ELSE None
      [] plan.kind = "HashJoin" ->
            LET right == output_ordering(plan.children[2])
            IN  IF is_some(right)
                THEN Some(add_offset(right[1], schema_width(plan.children[1])))
                ELSE None
      [] OTHER -> output_ordering(plan.children[1])

RECURSIVE unbounded_output(_)
unbounded_output(plan) ==
    IF plan.kind = "Source"
    THEN plan.flag
    ELSE \E i \in 1..Len(plan.children) : unbounded_output(plan.children[i])

(* Pairs of equal columns known at the output of a plan (join keys). *)
RECURSIVE eq_group(_)
eq_group(plan) ==
    CASE plan.kind = "Source" -> {}
      [] plan.kind = "HashJoin" ->
            LET w == schema_width(plan.children[1])
            IN  eq_group(plan.children[1])
                  \cup {<<p[1] + w, p[2] + w>> : p \in eq_group(plan.children[2])}
                  \cup {<<ColC, ColC + w>>}
      [] OTHER -> eq_group(plan.children[1])

equivalence_properties(plan) ==
    [eq_group |-> eq_group(plan), oeq_class |-> output_ordering(plan)]

(* The representative of a column: the smallest column equal to it. *)
RECURSIVE normalize_col(_, _)
normalize_col(group, col) ==
    IF \E p \in group : p[2] = col /\ p[1] < col
    THEN normalize_col(group, (CHOOSE p \in group : p[2] = col /\ p[1] < col)[1])
    ELSE col

normalize_sort_exprs(group, ordering) ==
    [i \in 1..Len(ordering) |->
        [ordering[i] EXCEPT !.col = normalize_col(group, ordering[i].col)]]

is_prefix(r, o) == Len(r) <= Len(o) /\ \A i \in 1..Len(r) : r[i] = o[i]

ordering_satisfy(eqp, required) ==
    LET r == normalize_sort_exprs(eqp.eq_group, required)
        o == normalize_sort_exprs(eqp.eq_group, unwrap_or(eqp.oeq_class, <<>>))
    IN  is_prefix(r, o)

(* RepartitionExec::try_new(child, partitioning) *)
RepartitionExec_try_new(child, partitioning) ==
    Node("Repartition", <<>>, partitioning.scheme, partitioning.n, FALSE, <<child>>)

(* RepartitionExec::with_preserve_order *)
with_preserve_order(rep) ==
    [rep EXCEPT !.flag = is_some(output_ordering(rep.children[1]))
                         /\ partition_count(rep.children[1]) > 1]

with_new_children(plan, new_children) ==
    IF is_repartition(plan)
    THEN LET rep == RepartitionExec_try_new(new_children[1], output_partitioning(plan))
         IN  IF plan.flag THEN with_preserve_order(rep) ELSE rep
    ELSE [plan EXCEPT !.children = new_children]

(* The constructors return a Result. Whether RepartitionExec::try_new      *)
(* returns Err under the fault f of the run.                               *)
RepartitionExec_try_new_is_err(f) == f = "try_new"

(* Whether with_new_children of this node returns Err: its own failure, or *)
(* that of the RepartitionExec::try_new it calls for a repartition.        *)
with_new_children_is_err(plan, f) ==
    \/ f = "with_new_children"
    \/ is_repartition(plan) /\ RepartitionExec_try_new_is_err(f)

-----------------------------------------------------------------------------
(* Mutant: a sort hands down the connection it inherited. *)
down_sort_inherits(plan, ordering_connection) ==
    LET possible_ordering_connection ==
            is_repartition(plan) \/ is_coalesce_partitions(plan)
        mios == maintains_input_order(plan)
        children_ordering_connections ==
            IF is_sort(plan)
            THEN <<ordering_connection>>
            ELSE [i \in 1..Len(mios) |->
                    ordering_connection /\ (mios[i] \/ possible_ordering_connection)]
    IN  [node |-> plan,
         transformed |-> FALSE,
         children_ordering_connections |-> children_ordering_connections,
         ordering_connection |-> ordering_connection]

(* Mutant: a replaceable operator that loses the order ends the connection. *)
down_ignores_replaceable(plan, ordering_connection) ==
    LET mios == maintains_input_order(plan)
        children_ordering_connections ==
            IF is_sort(plan)
            THEN <<TRUE>>
            ELSE [i \in 1..Len(mios) |-> ordering_connection /\ mios[i]]
    IN  [node |-> plan,
         transformed |-> FALSE,
         children_ordering_connections |-> children_ordering_connections,
         ordering_connection |-> ordering_connection]

(* Mutant: the parentheses around the two ways of keeping a connection    *)
(* are missing, so a replaceable operator starts a connection.             *)
down_without_parentheses(plan, ordering_connection) ==
    LET possible_ordering_connection ==
            is_repartition(plan) \/ is_coalesce_partitions(plan)
        mios == maintains_input_order(plan)
        children_ordering_connections ==
            IF is_sort(plan)
            THEN <<TRUE>>
            ELSE [i \in 1..Len(mios) |->
                    (ordering_connection /\ mios[i]) \/ possible_ordering_connection]
    IN  [node |-> plan,
         transformed |-> FALSE,
         children_ordering_connections |-> children_ordering_connections,
         ordering_connection |-> ordering_connection]

(* Mutant: the inherited connection is not looked at. *)
down_without_inherited(plan, ordering_connection) ==
    LET possible_ordering_connection ==
            is_repartition(plan) \/ is_coalesce_partitions(plan)
        mios == maintains_input_order(plan)
        children_ordering_connections ==
            IF is_sort(plan)
            THEN <<TRUE>>
            ELSE [i \in 1..Len(mios) |-> mios[i] \/ possible_ordering_connection]
    IN  [node |-> plan,
         transformed |-> FALSE,
         children_ordering_connections |-> children_ordering_connections,
         ordering_connection |-> ordering_connection]

(* Mutant: the connection kept for the bottom-up step is computed anew: a  *)
(* sort keeps true.                                                        *)
down_recomputes_own_connection(plan, ordering_connection) ==
    LET possible_ordering_connection ==
            is_repartition(plan) \/ is_coalesce_partitions(plan)
        mios == maintains_input_order(plan)
        children_ordering_connections ==
            IF is_sort(plan)
            THEN <<TRUE>>
            ELSE [i \in 1..Len(mios) |->
                    ordering_connection /\ (mios[i] \/ possible_ordering_connection)]
    IN  [node |-> plan,
         transformed |-> FALSE,
         children_ordering_connections |-> children_ordering_connections,
         ordering_connection |-> is_sort(plan) \/ ordering_connection]

(* The top-down step. Returns the node (never transformed), one connection *)
(* per child and the node's own inherited connection for the bottom-up     *)
(* step.                                                                   *)
propagate_order_maintaining_connections_down(plan, ordering_connection) ==
    LET possible_ordering_connection ==
            is_repartition(plan) \/ is_coalesce_partitions(plan)
        mios == maintains_input_order(plan)
        children_ordering_connections ==
            IF is_sort(plan)
            THEN <<TRUE>>
            ELSE [i \in 1..Len(mios) |->
                    ordering_connection /\ (mios[i] \/ possible_ordering_connection)]
    IN  [node |-> plan,
         transformed |-> FALSE,
         children_ordering_connections |-> children_ordering_connections,
         ordering_connection |-> ordering_connection]

(* Mutant: prefer_existing_sort alone decides, boundedness is not looked at. *)
use_order_preserving_variant_config_only(plan, prefer_sort) == prefer_sort

(* Mutant: the variant is used whatever the config and the boundedness. *)
use_order_preserving_variant_always(plan, prefer_sort) == TRUE

(* The config and boundedness test of the bottom-up step. *)
use_order_preserving_variant(plan, prefer_sort) ==
    prefer_sort \/ unbounded_output(plan)

(* Mutant: any alternative is taken to make the sort unnecessary. *)
sort_is_unnecessary_unchecked(order_preserving_plan, plan) == TRUE

(* Mutant: a sort without an ordering of its own is never unnecessary. *)
sort_is_unnecessary_needs_ordering(order_preserving_plan, plan) ==
    /\ unwrap_or(output_ordering(plan), <<>>) # <<>>
    /\ ordering_satisfy(equivalence_properties(order_preserving_plan),
                        unwrap_or(output_ordering(plan), <<>>))

(* The check that an alternative makes the sort above it unnecessary. *)
(* Mutant: the ordering of the sort is tested on the sort itself and not   *)
(* on the alternative.                                                     *)
sort_is_unnecessary_on_own_ordering(order_preserving_plan, plan) ==
    ordering_satisfy(equivalence_properties(plan),
                     unwrap_or(output_ordering(plan), <<>>))

sort_is_unnecessary(order_preserving_plan, plan) ==
    ordering_satisfy(equivalence_properties(order_preserving_plan),
                     unwrap_or(output_ordering(plan), <<>>))

(* Mutant: the test of the alternative is inverted. *)
up_sort_inverted(plan, order_preserving_children) ==
    LET opc == order_preserving_children[1]
    IN  IF is_some(opc)
        THEN IF ~sort_is_unnecessary(opc[1], plan)
             THEN [node |-> opc[1], transformed |-> TRUE, alt |-> None]
             ELSE [node |-> plan, transformed |-> FALSE, alt |-> None]
        ELSE [node |-> plan, transformed |-> FALSE, alt |-> None]

(* Mutant: an alternative that does not satisfy the sort is passed on up. *)
up_sort_passes_rejected(plan, order_preserving_children) ==
    LET opc == order_preserving_children[1]
    IN  IF is_some(opc)
        THEN IF sort_is_unnecessary(opc[1], plan)
             THEN [node |-> opc[1], transformed |-> TRUE, alt |-> None]
             ELSE [node |-> plan, transformed |-> FALSE, alt |-> opc]
        ELSE [node |-> plan, transformed |-> FALSE, alt |-> None]

(* The sort case: the alternative of the child is taken or dropped. *)
(* Mutant: a dropped sort still propagates the alternative it accepted. *)
up_sort_keeps_propagating(plan, order_preserving_children) ==
    LET opc == order_preserving_children[1]
    IN  IF is_some(opc)
        THEN IF sort_is_unnecessary(opc[1], plan)
             THEN [node |-> opc[1], transformed |-> TRUE, alt |-> opc]
             ELSE [node |-> plan, transformed |-> FALSE, alt |-> None]
        ELSE [node |-> plan, transformed |-> FALSE, alt |-> None]

(* Mutant: a sort that rejects the alternative of its child is handled as  *)
(* any other node and carries the alternative up beneath itself.           *)
up_sort_alternative_over_sort(plan, order_preserving_children) ==
    LET opc == order_preserving_children[1]
    IN  IF is_some(opc)
        THEN IF sort_is_unnecessary(opc[1], plan)
             THEN [node |-> opc[1], transformed |-> TRUE, alt |-> None]
             ELSE [node |-> plan, transformed |-> FALSE,
                   alt |-> Some(with_new_children(plan, <<opc[1]>>))]
        ELSE [node |-> plan, transformed |-> FALSE, alt |-> None]

up_sort(plan, order_preserving_children) ==
    LET opc == order_preserving_children[1]
    IN  IF is_some(opc)
        THEN IF sort_is_unnecessary(opc[1], plan)
             THEN [node |-> opc[1], transformed |-> TRUE, alt |-> None]
             ELSE [node |-> plan, transformed |-> FALSE, alt |-> None]
        ELSE [node |-> plan, transformed |-> FALSE, alt |-> None]

(* Mutant: a repartition that already maintains its input order is        *)
(* replaced as well.                                                       *)
replaces_repartition_unchecked(plan, ordering_connection, spr_better, prefer_sort) ==
    /\ ordering_connection
    /\ is_repartition(plan)
    /\ (spr_better \/ use_order_preserving_variant(plan, prefer_sort))

(* Mutant: the repartition case does not ask for a connection. *)
replaces_repartition_unconnected(plan, ordering_connection, spr_better, prefer_sort) ==
    /\ is_repartition(plan)
    /\ ~maintains_input_order(plan)[1]
    /\ (spr_better \/ use_order_preserving_variant(plan, prefer_sort))

(* The condition of the repartition case. *)
replaces_repartition(plan, ordering_connection, spr_better, prefer_sort) ==
    /\ ordering_connection
    /\ is_repartition(plan)
    /\ ~maintains_input_order(plan)[1]
    /\ (spr_better \/ use_order_preserving_variant(plan, prefer_sort))

(* Mutant: the new repartition is put over the child of the node even     *)
(* when the child propagated an alternative.                               *)
up_repartition_restarts(plan, order_preserving_children) ==
    LET child == children(plan)[1]
        order_preserving_plan ==
            with_preserve_order(
                RepartitionExec_try_new(child, output_partitioning(plan)))
    IN  [node |-> plan, transformed |-> FALSE, alt |-> Some(order_preserving_plan)]

(* Mutant: the repartition case puts the new repartition in the place of   *)
(* the node at once.                                                       *)
up_repartition_rewrites_primary(plan, order_preserving_children) ==
    LET child == unwrap_or(order_preserving_children[1], children(plan)[1])
        order_preserving_plan ==
            with_preserve_order(
                RepartitionExec_try_new(child, output_partitioning(plan)))
    IN  [node |-> order_preserving_plan, transformed |-> TRUE,
         alt |-> Some(order_preserving_plan)]

(* Mutant: the new repartition gets a round robin partitioning and not the *)
(* partitioning of the node.                                               *)
up_repartition_round_robin(plan, order_preserving_children) ==
    LET child == unwrap_or(order_preserving_children[1], children(plan)[1])
        order_preserving_plan ==
            with_preserve_order(
                RepartitionExec_try_new(child,
                    [scheme |-> "RoundRobinBatch", n |-> output_partitioning(plan).n]))
    IN  [node |-> plan, transformed |-> FALSE, alt |-> Some(order_preserving_plan)]

(* Mutant: the new repartition is not told to preserve the order. *)
up_repartition_plain(plan, order_preserving_children) ==
    LET child == unwrap_or(order_preserving_children[1], children(plan)[1])
        order_preserving_plan ==
            RepartitionExec_try_new(child, output_partitioning(plan))
    IN  [node |-> plan, transformed |-> FALSE, alt |-> Some(order_preserving_plan)]

(* The repartition case: the alternative gets the order preserving variant. *)
up_repartition(plan, order_preserving_children) ==
    LET child == unwrap_or(order_preserving_children[1], children(plan)[1])
        order_preserving_plan ==
            with_preserve_order(
                RepartitionExec_try_new(child, output_partitioning(plan)))
    IN  [node |-> plan, transformed |-> FALSE, alt |-> Some(order_preserving_plan)]

(* Mutant: the coalesce case asks for neither switch nor unboundedness. *)
replaces_coalesce_unconditional(plan, ordering_connection, spm_better, prefer_sort) ==
    /\ ordering_connection
    /\ is_coalesce_partitions(plan)

(* The condition of the coalesce case. *)
replaces_coalesce(plan, ordering_connection, spm_better, prefer_sort) ==
    /\ ordering_connection
    /\ is_coalesce_partitions(plan)
    /\ (spm_better \/ use_order_preserving_variant(plan, prefer_sort))

(* Mutant: the coalesce case starts from the child of the node and not     *)
(* from the alternative the child propagated.                              *)
up_coalesce_ignores_alternative(plan, order_preserving_children) ==
    LET child == children(plan)[1]
        o == output_ordering(child)
        order_preserving_plan ==
            IF is_some(o) THEN Some(SortPreservingMergeExec(o[1], child)) ELSE None
    IN  [node |-> plan, transformed |-> FALSE, alt |-> order_preserving_plan]

(* Mutant: over a child without output ordering the coalesce case passes   *)
(* on the alternative that the child propagated.                           *)
up_coalesce_passes_unordered(plan, order_preserving_children) ==
    LET child == unwrap_or(order_preserving_children[1], children(plan)[1])
        o == output_ordering(child)
        order_preserving_plan ==
            IF is_some(o) THEN Some(SortPreservingMergeExec(o[1], child))
            ELSE order_preserving_children[1]
    IN  [node |-> plan, transformed |-> FALSE, alt |-> order_preserving_plan]

(* Mutant: over an ordered child the coalesce case propagates the child    *)
(* without a merge over it.                                                *)
up_coalesce_skips_merge(plan, order_preserving_children) ==
    LET child == unwrap_or(order_preserving_children[1], children(plan)[1])
        o == output_ordering(child)
        order_preserving_plan == IF is_some(o) THEN Some(child) ELSE None
    IN  [node |-> plan, transformed |-> FALSE, alt |-> order_preserving_plan]

(* The coalesce case: a sort preserving merge over an ordered child. *)
up_coalesce(plan, order_preserving_children) ==
    LET child == unwrap_or(order_preserving_children[1], children(plan)[1])
        o == output_ordering(child)
        order_preserving_plan ==
            IF is_some(o) THEN Some(SortPreservingMergeExec(o[1], child)) ELSE None
    IN  [node |-> plan, transformed |-> FALSE, alt |-> order_preserving_plan]

(* Mutant: the alternatives are carried up only when every child           *)
(* propagated one.                                                         *)
up_other_needs_all_children(plan, order_preserving_children) ==
    LET order_preserving_plan ==
            IF \A i \in 1..Len(order_preserving_children) :
                   is_some(order_preserving_children[i])
            THEN Some(with_new_children(plan,
                   [i \in 1..Len(order_preserving_children) |->
                       unwrap_or(order_preserving_children[i], children(plan)[i])]))
            ELSE None
    IN  [node |-> plan, transformed |-> FALSE, alt |-> order_preserving_plan]

(* Mutant: the alternative of the first child is carried up as it is,      *)
(* without the node over it.                                               *)
up_other_passes_child_alternative(plan, order_preserving_children) ==
    LET order_preserving_plan ==
            IF \E i \in 1..Len(order_preserving_children) :
                   is_some(order_preserving_children[i])
            THEN Some(unwrap_or(order_preserving_children[1], children(plan)[1]))
            ELSE None
    IN  [node |-> plan, transformed |-> FALSE, alt |-> order_preserving_plan]

(* Any other node: the alternatives of the children are carried up. *)
up_other(plan, order_preserving_children) ==
    LET order_preserving_plan ==
            IF \E i \in 1..Len(order_preserving_children) :
                   is_some(order_preserving_children[i])
            THEN Some(with_new_children(plan,
                   [i \in 1..Len(order_preserving_children) |->
                       unwrap_or(order_preserving_children[i], children(plan)[i])]))
            ELSE None
    IN  [node |-> plan, transformed |-> FALSE, alt |-> order_preserving_plan]

(* The bottom-up step. Returns the node (transformed only when a sort is   *)
(* dropped) and the optional order preserving alternative of the node.     *)
replace_with_order_preserving_variants_up(plan, ordering_connection, order_preserving_children, spr_better, spm_better, prefer_sort) ==
    IF is_sort(plan)
    THEN up_sort(plan, order_preserving_children)
    ELSE IF replaces_repartition(plan, ordering_connection, spr_better, prefer_sort)
    THEN up_repartition(plan, order_preserving_children)
    ELSE IF replaces_coalesce(plan, ordering_connection, spm_better, prefer_sort)
    THEN up_coalesce(plan, order_preserving_children)
    ELSE up_other(plan, order_preserving_children)

(* Mutant: a failed construction is swallowed and the node kept. *)
up_is_err_swallowed(plan, ordering_connection, order_preserving_children, spr_better, spm_better, prefer_sort, f) ==
    FALSE

(* Whether the bottom-up step returns Err: the `?` on try_new in the       *)
(* repartition case and on with_new_children in the last case.             *)
up_is_err(plan, ordering_connection, order_preserving_children, spr_better, spm_better, prefer_sort, f) ==
    IF is_sort(plan)
    THEN FALSE
    ELSE IF replaces_repartition(plan, ordering_connection, spr_better, prefer_sort)
    THEN RepartitionExec_try_new_is_err(f)
    ELSE IF replaces_coalesce(plan, ordering_connection, spm_better, prefer_sort)
    THEN FALSE
    ELSE /\ \E i \in 1..Len(order_preserving_children) :
               is_some(order_preserving_children[i])
         /\ with_new_children_is_err(plan, f)

-----------------------------------------------------------------------------
(* The traversal: transform_with_payload(f_down, payload_down, f_up).      *)

(* Rebuilds a node over its transformed children; a node whose children    *)
(* did not change is kept as it is.                                        *)
map_children(plan, new_children) ==
    IF new_children = children(plan)
    THEN plan
    ELSE with_new_children(plan, new_children)

(* Whether rebuilding the node over its transformed children returns Err.  *)
map_children_is_err(plan, new_children, f) ==
    new_children # children(plan) /\ with_new_children_is_err(plan, f)

(* The whole traversal as a function: the optimized node and the           *)
(* alternative returned for it.                                            *)
RECURSIVE transform_with_payload(_, _, _, _, _)
transform_with_payload(plan, payload_down, spr_better, spm_better, prefer_sort) ==
    LET d == propagate_order_maintaining_connections_down(plan, payload_down)
        kids == children(d.node)
        sub == [i \in 1..Len(kids) |->
                   transform_with_payload(kids[i],
                       d.children_ordering_connections[i],
                       spr_better, spm_better, prefer_sort)]
        after_op_children ==
            map_children(d.node, [i \in 1..Len(kids) |-> sub[i].node])
        u == replace_with_order_preserving_variants_up(after_op_children,
                 d.ordering_connection, [i \in 1..Len(kids) |-> sub[i].alt],
                 spr_better, spm_better, prefer_sort)
    IN  [node |-> u.node, alt |-> u.alt]

(* One run of the rule as the callers run it: initial connection false,    *)
(* the alternative returned for the root dropped.                          *)
optimize(plan, spr_better, spm_better, prefer_sort) ==
    transform_with_payload(plan, FALSE, spr_better, spm_better, prefer_sort).node

-----------------------------------------------------------------------------
(* Input plans. *)

repartition_exec_round_robin(child) ==
    RepartitionExec_try_new(child, [scheme |-> "RoundRobinBatch", n |-> NParts])

repartition_exec_hash(child) ==
    RepartitionExec_try_new(child, [scheme |-> "Hash", n |-> NParts])

(* stream_exec_ordered / csv_exec_sorted: one partition, declared ordering *)
source_exec(ordering, infinite) == SourceExec(ordering, 1, infinite)

UnaryKinds == {"SortA", "SortC", "SortNone", "Repartition", "CoalescePartitions", "Filter"}

Wrap(k, child) ==
    CASE k = "SortA" -> SortExec(<<sort_expr(ColA)>>, child, TRUE)
      [] k = "SortC" -> SortExec(<<sort_expr(ColC)>>, child, FALSE)
      [] k = "SortNone" -> SortExec(<<>>, child, FALSE)
      [] k = "Repartition" -> repartition_exec_hash(child)
      [] k = "CoalescePartitions" -> CoalescePartitionsExec(child)
      [] k = "Filter" -> FilterExec(child)

Leaves ==
    {SourceExec(o, NParts, u) : o \in {<<>>, <<sort_expr(ColA)>>}, u \in BOOLEAN}

RECURSIVE Chains(_, _, _)
Chains(leaves, kinds, d) ==
    IF d = 0
    THEN leaves
    ELSE LET below == Chains(leaves, kinds, d - 1)
         IN  below \cup {Wrap(k, c) : k \in kinds, c \in below}

ChainPlans == Chains(Leaves, UnaryKinds, MaxDepth)

(* Two more operators on top of the chains: a sort over a repartition, and *)
(* a sort over a filter over chains of sorts and replaceable operators, so *)
(* that sorts nest with replaceable operators between them; and an         *)
(* operator as the root over a sort that can be dropped.                   *)
NestedPlans ==
    LET below == Chains(Leaves, UnaryKinds, MaxDepth)
        replaceable ==
            Chains(Leaves, {"SortA", "SortNone", "Repartition", "CoalescePartitions"},
                   MaxDepth)
    IN  {Wrap("SortC", Wrap("Repartition", c)) : c \in below}
          \cup {Wrap("SortNone", Wrap("Filter", c)) : c \in replaceable}
          \cup {Wrap(k, Wrap("SortA", Wrap("Repartition", l))) :
                   k \in {"Repartition", "CoalescePartitions", "SortA"},
                   l \in Leaves}

(* Three sorts in a chain: a sort over a coalesce over a sort over a        *)
(* repartition, over chains that hold a further sort.                      *)
DeepNestedPlans ==
    LET below == Chains(Leaves, {"SortA", "Repartition"}, MaxDepth)
    IN  {Wrap("SortC", Wrap("CoalescePartitions",
             Wrap("SortC", Wrap("Repartition", c)))) : c \in below}

JoinLeaves == {SourceExec(<<sort_expr(ColA)>>, NParts, u) : u \in BOOLEAN}

JoinInputs == Chains(JoinLeaves, {"SortA", "Repartition"}, MaxJoinDepth)

JoinPlans ==
    LET joins == {HashJoinExec(l, r) : l \in JoinInputs, r \in JoinInputs}
    IN  joins
          \cup {SortExec(<<sort_expr(ColA)>>, j, TRUE) : j \in joins}
          \cup {SortExec(<<sort_expr(ColA + SchemaWidth)>>, j, TRUE) : j \in joins}

-----------------------------------------------------------------------------
(* The plans of the unit tests, over a bounded or an unbounded source.     *)

test_replace_multiple_input_repartition_1(unb) ==
    SortPreservingMergeExec(<<sort_expr(ColA)>>,
      SortExec(<<sort_expr(ColA)>>,
        repartition_exec_hash(repartition_exec_round_robin(
          source_exec(<<sort_expr(ColA)>>, unb))), TRUE))

test_with_inter_children_change_only(unb) ==
    LET sort == SortExec(<<sort_expr_default(ColA)>>,
                  CoalescePartitionsExec(repartition_exec_hash(
                    repartition_exec_round_robin(
                      source_exec(<<sort_expr_default(ColA)>>, unb)))), FALSE)
    IN  SortPreservingMergeExec(<<sort_expr_default(ColA)>>,
          SortExec(<<sort_expr_default(ColA)>>,
            FilterExec(repartition_exec_hash(repartition_exec_round_robin(sort))),
            TRUE))

test_replace_multiple_input_repartition_2(unb) ==
    SortPreservingMergeExec(<<sort_expr(ColA)>>,
      SortExec(<<sort_expr(ColA)>>,
        repartition_exec_hash(FilterExec(repartition_exec_round_robin(
          source_exec(<<sort_expr(ColA)>>, unb)))), TRUE))

test_replace_multiple_input_repartition_with_extra_steps(unb) ==
    SortPreservingMergeExec(<<sort_expr(ColA)>>,
      SortExec(<<sort_expr(ColA)>>,
        CoalesceBatchesExec(FilterExec(repartition_exec_hash(
          repartition_exec_round_robin(source_exec(<<sort_expr(ColA)>>, unb))))),
        TRUE))

test_replace_multiple_input_repartition_with_extra_steps_2(unb) ==
    SortPreservingMergeExec(<<sort_expr(ColA)>>,
      SortExec(<<sort_expr(ColA)>>,
        CoalesceBatchesExec(FilterExec(repartition_exec_hash(CoalesceBatchesExec(
          repartition_exec_round_robin(source_exec(<<sort_expr(ColA)>>, unb)))))),
        TRUE))

test_not_replacing_when_no_need_to_preserve_sorting(unb) ==
    CoalescePartitionsExec(CoalesceBatchesExec(FilterExec(repartition_exec_hash(
      repartition_exec_round_robin(source_exec(<<sort_expr(ColA)>>, unb))))))

test_with_multiple_replacable_repartitions(unb) ==
    SortPreservingMergeExec(<<sort_expr(ColA)>>,
      SortExec(<<sort_expr(ColA)>>,
        repartition_exec_hash(CoalesceBatchesExec(FilterExec(repartition_exec_hash(
          repartition_exec_round_robin(source_exec(<<sort_expr(ColA)>>, unb)))))),
        TRUE))

test_not_replace_with_different_orderings(unb) ==
    SortPreservingMergeExec(<<sort_expr_default(ColC)>>,
      SortExec(<<sort_expr_default(ColC)>>,
        repartition_exec_hash(repartition_exec_round_robin(
          source_exec(<<sort_expr(ColA)>>, unb))), TRUE))

test_with_lost_ordering(unb) ==
    SortExec(<<sort_expr(ColA)>>,
      CoalescePartitionsExec(repartition_exec_hash(repartition_exec_round_robin(
        source_exec(<<sort_expr(ColA)>>, unb)))), FALSE)

test_with_lost_and_kept_ordering(unb) ==
    LET sort == SortExec(<<sort_expr_default(ColC)>>,
                  CoalescePartitionsExec(repartition_exec_hash(
                    repartition_exec_round_robin(
                      source_exec(<<sort_expr(ColA)>>, unb)))), FALSE)
    IN  SortPreservingMergeExec(<<sort_expr_default(ColC)>>,
          SortExec(<<sort_expr_default(ColC)>>,
            FilterExec(repartition_exec_hash(repartition_exec_round_robin(sort))),
            TRUE))

test_with_multiple_child_trees(unb) ==
    LET side == CoalesceBatchesExec(repartition_exec_hash(
                  repartition_exec_round_robin(
                    source_exec(<<sort_expr(ColA)>>, unb))))
    IN  SortPreservingMergeExec(<<sort_expr_default(ColA)>>,
          SortExec(<<sort_expr_default(ColA)>>, HashJoinExec(side, side), TRUE))

TestPlans ==
    UNION {{test_replace_multiple_input_repartition_1(u),
            test_with_inter_children_change_only(u),
            test_replace_multiple_input_repartition_2(u),
            test_replace_multiple_input_repartition_with_extra_steps(u),
            test_replace_multiple_input_repartition_with_extra_steps_2(u),
            test_not_replacing_when_no_need_to_preserve_sorting(u),
            test_with_multiple_replacable_repartitions(u),
            test_not_replace_with_different_orderings(u),
            test_with_lost_ordering(u),
            test_with_lost_and_kept_ordering(u),
            test_with_multiple_child_trees(u)} : u \in BOOLEAN}

Plans == ChainPlans \cup NestedPlans \cup DeepNestedPlans \cup JoinPlans \cup TestPlans

-----------------------------------------------------------------------------
(* The run of the rule, one step of the traversal at a time.               *)

(* Mutant: the traversal is started with the connection true. *)
Init_connection_true ==
    /\ input \in Plans
    /\ prefer_existing_sort \in BOOLEAN
    /\ is_spr_better \in BOOLEAN
    /\ is_spm_better \in BOOLEAN
    /\ pc = "down"
    /\ cur = input
    /\ curConn = TRUE
    /\ curPath = <<>>
    /\ stack = <<>>
    /\ log = <<>>
    /\ result = None
    /\ rootAlt = None
    /\ fault = "none"

Init ==
    /\ input \in Plans
    /\ prefer_existing_sort \in BOOLEAN
    /\ is_spr_better \in BOOLEAN
    /\ is_spm_better \in BOOLEAN
    /\ pc = "down"
    /\ cur = input
    /\ curConn = FALSE
    /\ curPath = <<>>
    /\ stack = <<>>
    /\ log = <<>>
    /\ result = None
    /\ rootAlt = None
    /\ fault = "none"

(* f_down on the node the traversal is entering; then on to its first      *)
(* child, or to f_up when it has none.                                     *)
Down ==
    /\ pc = "down"
    /\ LET d == propagate_order_maintaining_connections_down(cur, curConn)
           kids == children(d.node)
       IN  /\ stack' = Append(stack,
                 [node |-> d.node, conn |-> d.ordering_connection,
                  conns |-> d.children_ordering_connections,
                  path |-> curPath, kids |-> <<>>, alts |-> <<>>])
           /\ log' = Append(log,
                 [step |-> "down", path |-> curPath, plan |-> cur,
                  conn |-> curConn, conns |-> d.children_ordering_connections,
                  alts |-> <<>>, node |-> d.node,
                  transformed |-> d.transformed, alt |-> None])
           /\ IF Len(kids) > 0
              THEN /\ pc' = "down"
                   /\ cur' = kids[1]
                   /\ curConn' = d.children_ordering_connections[1]
                   /\ curPath' = Append(curPath, 1)
              ELSE /\ pc' = "up"
                   /\ UNCHANGED <<cur, curConn, curPath>>
    /\ UNCHANGED <<input, prefer_existing_sort, is_spr_better, is_spm_better,
                   result, rootAlt, fault>>

(* Mutant: after a child is done the traversal enters the same child      *)
(* again instead of the next one.                                          *)
Up_revisits_child ==
    /\ pc = "up"
    /\ LET top == stack[Len(stack)]
       IN  /\ ~map_children_is_err(top.node, top.kids, fault)
           /\ ~up_is_err(map_children(top.node, top.kids), top.conn, top.alts,
                         is_spr_better, is_spm_better, prefer_existing_sort, fault)
    /\ LET top == stack[Len(stack)]
           rest == SubSeq(stack, 1, Len(stack) - 1)
           after_op_children == map_children(top.node, top.kids)
           u == replace_with_order_preserving_variants_up(after_op_children,
                    top.conn, top.alts, is_spr_better, is_spm_better,
                    prefer_existing_sort)
       IN  /\ log' = Append(log,
                 [step |-> "up", path |-> top.path, plan |-> after_op_children,
                  conn |-> top.conn, conns |-> top.conns, alts |-> top.alts,
                  node |-> u.node, transformed |-> u.transformed, alt |-> u.alt])
           /\ IF Len(rest) = 0
              THEN /\ result' = Some(u.node)
                   /\ rootAlt' = u.alt
                   /\ pc' = "done"
                   /\ stack' = rest
                   /\ UNCHANGED <<cur, curConn, curPath>>
              ELSE LET parent == rest[Len(rest)]
                       done == Len(parent.kids) + 1
                   IN  /\ stack' = [rest EXCEPT ![Len(rest)] =
                              [parent EXCEPT !.kids = Append(@, u.node),
                                             !.alts = Append(@, u.alt)]]
                       /\ UNCHANGED <<result, rootAlt>>
                       /\ IF done < Len(children(parent.node))
                          THEN /\ pc' = "down"
                               /\ cur' = children(parent.node)[done]
                               /\ curConn' = parent.conns[done]
                               /\ curPath' = Append(parent.path, done)
                          ELSE /\ pc' = "up"
                               /\ UNCHANGED <<cur, curConn, curPath>>
    /\ UNCHANGED <<input, prefer_existing_sort, is_spr_better, is_spm_better,
                   fault>>

(* f_up on the innermost node whose children are all done; its results go  *)
(* to the parent, and the traversal enters the parent's next child if any. *)
Up ==
    /\ pc = "up"
    /\ LET top == stack[Len(stack)]
       IN  /\ ~map_children_is_err(top.node, top.kids, fault)
           /\ ~up_is_err(map_children(top.node, top.kids), top.conn, top.alts,
                         is_spr_better, is_spm_better, prefer_existing_sort, fault)
    /\ LET top == stack[Len(stack)]
           rest == SubSeq(stack, 1, Len(stack) - 1)
           after_op_children == map_children(top.node, top.kids)
           u == replace_with_order_preserving_variants_up(after_op_children,
                    top.conn, top.alts, is_spr_better, is_spm_better,
                    prefer_existing_sort)
       IN  /\ log' = Append(log,
                 [step |-> "up", path |-> top.path, plan |-> after_op_children,
                  conn |-> top.conn, conns |-> top.conns, alts |-> top.alts,
                  node |-> u.node, transformed |-> u.transformed, alt |-> u.alt])
           /\ IF Len(rest) = 0
              THEN /\ result' = Some(u.node)
                   /\ rootAlt' = u.alt
                   /\ pc' = "done"
                   /\ stack' = rest
                   /\ UNCHANGED <<cur, curConn, curPath>>
              ELSE LET parent == rest[Len(rest)]
                       done == Len(parent.kids) + 1
                   IN  /\ stack' = [rest EXCEPT ![Len(rest)] =
                              [parent EXCEPT !.kids = Append(@, u.node),
                                             !.alts = Append(@, u.alt)]]
                       /\ UNCHANGED <<result, rootAlt>>
                       /\ IF done < Len(children(parent.node))
                          THEN /\ pc' = "down"
                               /\ cur' = children(parent.node)[done + 1]
                               /\ curConn' = parent.conns[done + 1]
                               /\ curPath' = Append(parent.path, done + 1)
                          ELSE /\ pc' = "up"
                               /\ UNCHANGED <<cur, curConn, curPath>>
    /\ UNCHANGED <<input, prefer_existing_sort, is_spr_better, is_spm_better,
                   fault>>

Next == Down \/ Up

Spec == Init /\ [][Next]_vars

(* An Err from the rebuilding of the node or from f_up: the `?` of the     *)
(* traversal returns it at once, through every pending frame, to the       *)
(* caller; no node is returned.                                            *)
UpErr ==
    /\ pc = "up"
    /\ LET top == stack[Len(stack)]
           in_map == map_children_is_err(top.node, top.kids, fault)
           in_up == up_is_err(map_children(top.node, top.kids), top.conn,
                        top.alts, is_spr_better, is_spm_better,
                        prefer_existing_sort, fault)
       IN  /\ in_map \/ in_up
           /\ log' = Append(log,
                 [step |-> IF in_map THEN "map_children_err" ELSE "up_err",
                  path |-> top.path,
                  plan |-> IF in_map THEN top.node
                           ELSE map_children(top.node, top.kids),
                  conn |-> top.conn, conns |-> top.conns, alts |-> top.alts,
                  node |-> top.node, transformed |-> FALSE, alt |-> None])
    /\ pc' = "error"
    /\ UNCHANGED <<input, prefer_existing_sort, is_spr_better, is_spm_better,
                   cur, curConn, curPath, stack, result, rootAlt, fault>>

(* The plans of the runs in which a constructor fails, and of the runs     *)
(* checked for termination.                                                *)
SmallPlans == Chains(Leaves, UnaryKinds, MaxDepth - 1) \cup JoinPlans \cup TestPlans

InitErr ==
    /\ input \in SmallPlans
    /\ prefer_existing_sort \in BOOLEAN
    /\ is_spr_better \in BOOLEAN
    /\ is_spm_better \in BOOLEAN
    /\ pc = "down"
    /\ cur = input
    /\ curConn = FALSE
    /\ curPath = <<>>
    /\ stack = <<>>
    /\ log = <<>>
    /\ result = None
    /\ rootAlt = None
    /\ fault \in {"try_new", "with_new_children"}

NextErr == Down \/ Up \/ UpErr

SpecErr == InitErr /\ [][NextErr]_vars

(* The run as a sequential program that keeps running until it returns. *)
InitFair ==
    /\ input \in SmallPlans
    /\ prefer_existing_sort \in BOOLEAN
    /\ is_spr_better \in BOOLEAN
    /\ is_spm_better \in BOOLEAN
    /\ pc = "down"
    /\ cur = input
    /\ curConn = FALSE
    /\ curPath = <<>>
    /\ stack = <<>>
    /\ log = <<>>
    /\ result = None
    /\ rootAlt = None
    /\ fault = "none"

SpecFair == InitFair /\ [][Next]_vars /\ WF_vars(Next)

-----------------------------------------------------------------------------
(* Helpers for stating properties. *)

Done == pc = "done"

Optimized == result[1]

(* The run agrees with the traversal taken as a function. *)
RunIsTraversal ==
    Done => /\ Optimized = optimize(input, is_spr_better, is_spm_better,
                                    prefer_existing_sort)
            /\ rootAlt = transform_with_payload(input, FALSE, is_spr_better,
                             is_spm_better, prefer_existing_sort).alt

(* A hash repartition with preserve_order=true, as the plan display shows. *)
repartition_exec_hash_preserve_order(child) ==
    with_preserve_order(repartition_exec_hash(child))

(* The optimized plans the unit tests expect when the alternative is       *)
(* taken (prefer_existing_sort on, or an unbounded source).                *)
expected_replace_multiple_input_repartition_1(unb) ==
    SortPreservingMergeExec(<<sort_expr(ColA)>>,
      repartition_exec_hash_preserve_order(repartition_exec_round_robin(
        source_exec(<<sort_expr(ColA)>>, unb))))

expected_with_inter_children_change_only(unb) ==
    SortPreservingMergeExec(<<sort_expr_default(ColA)>>,
      FilterExec(repartition_exec_hash_preserve_order(repartition_exec_round_robin(
        SortPreservingMergeExec(<<sort_expr_default(ColA)>>,
          repartition_exec_hash_preserve_order(repartition_exec_round_robin(
            source_exec(<<sort_expr_default(ColA)>>, unb))))))))

expected_replace_multiple_input_repartition_2(unb) ==
    SortPreservingMergeExec(<<sort_expr(ColA)>>,
      repartition_exec_hash_preserve_order(FilterExec(repartition_exec_round_robin(
        source_exec(<<sort_expr(ColA)>>, unb)))))

expected_replace_multiple_input_repartition_with_extra_steps(unb) ==
    SortPreservingMergeExec(<<sort_expr(ColA)>>,
      CoalesceBatchesExec(FilterExec(repartition_exec_hash_preserve_order(
        repartition_exec_round_robin(source_exec(<<sort_expr(ColA)>>, unb))))))

expected_replace_multiple_input_repartition_with_extra_steps_2(unb) ==
    SortPreservingMergeExec(<<sort_expr(ColA)>>,
      CoalesceBatchesExec(FilterExec(repartition_exec_hash_preserve_order(
        CoalesceBatchesExec(repartition_exec_round_robin(
          source_exec(<<sort_expr(ColA)>>, unb)))))))

expected_with_multiple_replacable_repartitions(unb) ==
    SortPreservingMergeExec(<<sort_expr(ColA)>>,
      repartition_exec_hash_preserve_order(CoalesceBatchesExec(FilterExec(
        repartition_exec_hash_preserve_order(repartition_exec_round_robin(
          source_exec(<<sort_expr(ColA)>>, unb)))))))

expected_with_lost_ordering(unb) ==
    SortPreservingMergeExec(<<sort_expr(ColA)>>,
      repartition_exec_hash_preserve_order(repartition_exec_round_robin(
        source_exec(<<sort_expr(ColA)>>, unb))))

expected_with_lost_and_kept_ordering(unb) ==
    SortPreservingMergeExec(<<sort_expr_default(ColC)>>,
      FilterExec(repartition_exec_hash_preserve_order(repartition_exec_round_robin(
        SortExec(<<sort_expr_default(ColC)>>,
          CoalescePartitionsExec(repartition_exec_hash(
            repartition_exec_round_robin(
              source_exec(<<sort_expr(ColA)>>, unb)))), FALSE)))))

(* assert_optimized_in_all_boundedness_situations for the tests other than *)
(* the first: both kind switches false, as the tests run the rule.         *)
TestsPass ==
    (Done /\ ~is_spr_better /\ ~is_spm_better) =>
      \A u \in BOOLEAN :
        LET taken == prefer_existing_sort \/ u
            Expect(plan, optimized) ==
                input = plan => Optimized = IF taken THEN optimized ELSE plan
        IN  /\ Expect(test_with_inter_children_change_only(u),
                      expected_with_inter_children_change_only(u))
            /\ Expect(test_replace_multiple_input_repartition_2(u),
                      expected_replace_multiple_input_repartition_2(u))
            /\ Expect(test_replace_multiple_input_repartition_with_extra_steps(u),
                      expected_replace_multiple_input_repartition_with_extra_steps(u))
            /\ Expect(test_replace_multiple_input_repartition_with_extra_steps_2(u),
                      expected_replace_multiple_input_repartition_with_extra_steps_2(u))
            /\ Expect(test_not_replacing_when_no_need_to_preserve_sorting(u),
                      test_not_replacing_when_no_need_to_preserve_sorting(u))
            /\ Expect(test_with_multiple_replacable_repartitions(u),
                      expected_with_multiple_replacable_repartitions(u))
            /\ Expect(test_not_replace_with_different_orderings(u),
                      test_not_replace_with_different_orderings(u))
            /\ Expect(test_with_lost_ordering(u), expected_with_lost_ordering(u))
            /\ Expect(test_with_lost_and_kept_ordering(u),
                      expected_with_lost_and_kept_ordering(u))
            /\ Expect(test_with_multiple_child_trees(u),
                      test_with_multiple_child_trees(u))

-----------------------------------------------------------------------------
(* Reading the log and the plans. *)

DownEvents == {log[i] : i \in {j \in 1..Len(log) : log[j].step = "down"}}

UpEvents == {log[i] : i \in {j \in 1..Len(log) : log[j].step = "up"}}

(* The up steps that dropped a sort, and those that kept a sort although   *)
(* its child had propagated an alternative.                                *)
Eliminated == {e \in UpEvents : is_sort(e.plan) /\ e.node # e.plan}

Rejected ==
    {e \in UpEvents : /\ is_sort(e.plan)
                      /\ is_some(e.alts[1])
                      /\ ~sort_is_unnecessary(e.alts[1][1], e.plan)}

EliminatedPaths == {e.path : e \in Eliminated}

required_ordering(sort) == unwrap_or(output_ordering(sort), <<>>)

RECURSIVE subtree_at(_, _)
subtree_at(plan, path) ==
    IF path = <<>> THEN plan ELSE subtree_at(plan.children[Head(path)], Tail(path))

RECURSIVE nodes(_)
nodes(plan) ==
    {plan} \cup UNION {nodes(plan.children[i]) : i \in 1..Len(plan.children)}

(* The place in the optimized plan of the node that the input plan has at  *)
(* path p: every dropped sort above it takes one step out of the path.     *)
RECURSIVE out_path(_, _)
out_path(p, j) ==
    IF j > Len(p)
    THEN <<>>
    ELSE (IF SubSeq(p, 1, j - 1) \in EliminatedPaths THEN <<>> ELSE <<p[j]>>)
            \o out_path(p, j + 1)

OutPath(p) == out_path(p, 1)

StandingAt(p) == subtree_at(Optimized, OutPath(p))

(* The input subtree at path p after the up steps of its nodes: dropped    *)
(* sorts give way to what replaced them, everything else stays.            *)
RECURSIVE after_up(_)
after_up(p) ==
    IF p \in EliminatedPaths
    THEN (CHOOSE e \in Eliminated : e.path = p).node
    ELSE LET plan == subtree_at(input, p)
         IN  map_children(plan,
                 [i \in 1..Len(plan.children) |-> after_up(Append(p, i))])

is_order_preserving_variant(plan) == is_repartition(plan) /\ plan.flag

order_losing(plan) ==
    \/ is_coalesce_partitions(plan)
    \/ is_repartition(plan) /\ ~maintains_input_order(plan)[1]

requires_input_ordering(plan) == plan.kind = "SortPreservingMerge"

-----------------------------------------------------------------------------
(* C1: whenever the up step puts the child's alternative in the place of a *)
(* sort, the ordering of that alternative satisfies the ordering of the    *)
(* sort; and in the optimized plan the subtree standing where a sort was   *)
(* dropped is that alternative and satisfies the ordering of the sort.     *)
C1_SortEliminationSound ==
    /\ \A e \in Eliminated :
          /\ is_some(e.alts[1])
          /\ e.node = e.alts[1][1]
          /\ ordering_satisfy(equivalence_properties(e.node),
                              required_ordering(e.plan))
    /\ Done => \A e \in Eliminated :
          /\ StandingAt(e.path) = e.node
          /\ ordering_satisfy(equivalence_properties(StandingAt(e.path)),
                              required_ordering(e.plan))

C1_Witness ==
    /\ Done
    /\ \E e \in Eliminated :
          /\ required_ordering(e.plan) # <<>>
          /\ \E f \in Eliminated : f.path # e.path /\ Len(f.path) > Len(e.path)

(* C2 as claimed: a sort whose child's alternative does not satisfy it is  *)
(* kept with its original child subtree, propagates nothing, and has no    *)
(* order preserving variant beneath it in the optimized plan.              *)
C2_Original ==
    /\ \A e \in Rejected : e.node = e.plan /\ e.alt = None
    /\ Done => \A e \in Rejected :
          /\ StandingAt(e.path) = subtree_at(input, e.path)
          /\ \A n \in nodes(StandingAt(e.path)) : ~is_order_preserving_variant(n)

(* C2 amended: a sort whose child's alternative does not satisfy it is     *)
(* kept over its child subtree as the up steps of the children left it     *)
(* (the original subtree except where a sort inside it was dropped), it    *)
(* propagates nothing, and so it stands in the optimized plan: an order    *)
(* preserving variant beneath it lies in the place of a dropped sort.      *)
C2_RejectedAlternative ==
    /\ \A e \in Rejected :
          /\ e.node = e.plan
          /\ e.alt = None
          /\ e.plan = after_up(e.path)
    /\ Done => \A e \in Rejected : StandingAt(e.path) = e.plan

C2_Witness ==
    /\ Done
    /\ \E e \in Rejected :
          /\ StandingAt(e.path) # subtree_at(input, e.path)
          /\ \E n \in nodes(StandingAt(e.path)) : is_order_preserving_variant(n)

-----------------------------------------------------------------------------
(* Paths of order losing operators. *)

(* Some path from this node down to an unbounded source passes an order    *)
(* losing operator (seen: one was passed above this node).                 *)
RECURSIVE order_lost_to_unbounded_source(_, _)
order_lost_to_unbounded_source(plan, seen) ==
    IF plan.kind = "Source"
    THEN plan.flag /\ seen
    ELSE \E i \in 1..Len(plan.children) :
            order_lost_to_unbounded_source(plan.children[i],
                                           seen \/ order_losing(plan))

(* An order losing operator is met from this node down the input edges     *)
(* whose order is maintained, not going below an explicit sort.            *)
RECURSIVE order_lost_on_maintained_path(_)
order_lost_on_maintained_path(plan) ==
    \/ order_losing(plan)
    \/ /\ ~is_sort(plan)
       /\ \E i \in 1..Len(plan.children) :
             /\ maintains_input_order(plan)[i]
             /\ order_lost_on_maintained_path(plan.children[i])

(* C3 as claimed: with an unbounded source, the optimized plan has no      *)
(* coalesce-partitions and no order losing repartition on any path between *)
(* that source and an operator that requires a known input ordering.       *)
C3_Original ==
    Done =>
      \A n \in nodes(Optimized) :
         requires_input_ordering(n) =>
            ~order_lost_to_unbounded_source(n.children[1], FALSE)

(* C3 amended: with an unbounded source, the subtree that stands where a   *)
(* sort with a non-empty requirement was dropped has no coalesce-partitions*)
(* and no order losing repartition on any path that runs from its root     *)
(* down input edges whose order is maintained, as far as the next explicit *)
(* sort or the source; order losing operators stay below a sort that is    *)
(* kept and in a plan without sorts.                                       *)
C3_UnboundedSafety ==
    (Done /\ unbounded_output(input)) =>
      \A e \in Eliminated :
         required_ordering(e.plan) # <<>> =>
            ~order_lost_on_maintained_path(StandingAt(e.path))

C3_Witness ==
    /\ Done
    /\ unbounded_output(input)
    /\ ~prefer_existing_sort /\ ~is_spr_better /\ ~is_spm_better
    /\ \E e \in Eliminated :
          /\ required_ordering(e.plan) # <<>>
          /\ \E n \in nodes(StandingAt(e.path)) : is_order_preserving_variant(n)
          /\ \E n \in nodes(StandingAt(e.path)) : n.kind = "SortPreservingMerge"

-----------------------------------------------------------------------------
all_bounded(plan) == \A n \in nodes(plan) : ~unbounded_output(n)

all_unbounded(plan) == \A n \in nodes(plan) : unbounded_output(n)

switches_off == ~is_spr_better /\ ~is_spm_better /\ ~prefer_existing_sort

(* A sort is redundant when the ordering of its input already satisfies it. *)
has_redundant_sort(plan) ==
    \E n \in nodes(plan) :
       /\ is_sort(n)
       /\ ordering_satisfy(equivalence_properties(n.children[1]),
                           required_ordering(n))

(* C4: with is_spr_better, is_spm_better and prefer_existing_sort false    *)
(* and a bounded source, the optimized plan is the input plan whenever no  *)
(* sort of the plan is redundant.                                          *)
C4_Conservative ==
    (Done /\ switches_off /\ all_bounded(input) /\ ~has_redundant_sort(input))
        => Optimized = input

C4_Witness ==
    /\ Done /\ switches_off /\ all_bounded(input) /\ ~has_redundant_sort(input)
    /\ \E n \in nodes(input) : is_sort(n) /\ required_ordering(n) # <<>>
    /\ \E n \in nodes(input) : is_repartition(n) /\ ~maintains_input_order(n)[1]
    /\ \E n \in nodes(input) : is_coalesce_partitions(n)
    /\ \E n \in nodes(input) : n.kind = "Source" /\ n.expr # <<>>
    /\ Optimized = input

-----------------------------------------------------------------------------
sorts_have_requirement(plan) ==
    \A n \in nodes(plan) :
       is_sort(n) => ~ordering_satisfy([eq_group |-> {}, oeq_class |-> None],
                                       required_ordering(n))

-----------------------------------------------------------------------------
(* C6: for SortPreservingMerge(a) over Sort(a) over Repartition(hash) over *)
(* Repartition(round robin, one input partition) over a source sorted by   *)
(* a, both kind switches false: with prefer_existing_sort off and a        *)
(* bounded source the optimized plan is the input; with it on or the       *)
(* source unbounded the sort is dropped and the hash repartition is the    *)
(* one preserving a ASC, the round robin repartition as it was.            *)
C6_EndToEnd ==
    (Done /\ ~is_spr_better /\ ~is_spm_better) =>
      \A u \in BOOLEAN :
         input = test_replace_multiple_input_repartition_1(u) =>
            Optimized = IF prefer_existing_sort \/ u
                        THEN expected_replace_multiple_input_repartition_1(u)
                        ELSE input

C6_Witness ==
    /\ Done /\ ~is_spr_better /\ ~is_spm_better /\ ~prefer_existing_sort
    /\ input = test_replace_multiple_input_repartition_1(TRUE)
    /\ Optimized = expected_replace_multiple_input_repartition_1(TRUE)
    /\ Optimized.children[1].flag
    /\ output_ordering(Optimized.children[1]) = Some(<<sort_expr(ColA)>>)
    /\ ~Optimized.children[1].children[1].flag

-----------------------------------------------------------------------------
(* C7: a plan without an explicit sort is returned unchanged whatever      *)
(* prefer_existing_sort and the boundedness of its sources are, also when  *)
(* it has coalesce-partitions and order losing repartitions; no node of it *)
(* propagates an alternative.                                              *)
C7_NoSortUnchanged ==
    (\A n \in nodes(input) : ~is_sort(n)) =>
        /\ \A e \in UpEvents : e.alt = None /\ e.node = e.plan
        /\ Done => Optimized = input /\ rootAlt = None

C7_Witness ==
    /\ Done
    /\ \A n \in nodes(input) : ~is_sort(n)
    /\ input.kind = "CoalescePartitions"
    /\ \E n \in nodes(input) : is_repartition(n) /\ ~maintains_input_order(n)[1]
    /\ unbounded_output(input)
    /\ output_ordering(input.children[1].children[1]) # None
    /\ Optimized = input

-----------------------------------------------------------------------------
(* The up steps of the repartition case that built a repartition with      *)
(* preserve_order on.                                                      *)
BuiltOrderPreservingRepartition ==
    {e \in UpEvents : /\ replaces_repartition(e.plan, e.conn, is_spr_better,
                                              prefer_existing_sort)
                      /\ is_some(e.alt)
                      /\ is_order_preserving_variant(e.alt[1])}

(* C8: the rule produces an order preserving repartition only if the query *)
(* is bounded or the config option is set to true.                         *)
C8_DocComment ==
    BuiltOrderPreservingRepartition # {} =>
        (~unbounded_output(input) \/ prefer_existing_sort)

-----------------------------------------------------------------------------
set_infinite(plan, infinite) ==
    IF plan.kind = "Source" THEN [plan EXCEPT !.flag = infinite] ELSE plan

(* The same plan with every source bounded, or every source unbounded. *)
RECURSIVE with_sources(_, _)
with_sources(plan, infinite) ==
    [set_infinite(plan, infinite) EXCEPT !.children =
        [i \in 1..Len(plan.children) |-> with_sources(plan.children[i], infinite)]]

(* C9: prefer_existing_sort and boundedness matter only through their      *)
(* disjunction: a plan whose nodes are all unbounded is optimized to the   *)
(* same plan with prefer_existing_sort true and false; and with            *)
(* prefer_existing_sort true a plan whose nodes are all bounded is         *)
(* optimized to the operator shape of the same plan with all nodes         *)
(* unbounded.                                                              *)
C9_OnlyTheDisjunction ==
    /\ (Done /\ all_unbounded(input)) =>
          Optimized = optimize(input, is_spr_better, is_spm_better,
                               ~prefer_existing_sort)
    /\ (Done /\ all_bounded(input) /\ prefer_existing_sort) =>
          Optimized = with_sources(
                          optimize(with_sources(input, TRUE), is_spr_better,
                                   is_spm_better, TRUE), FALSE)

C9_Witness ==
    /\ Done
    /\ all_unbounded(input)
    /\ ~prefer_existing_sort /\ ~is_spr_better /\ ~is_spm_better
    /\ Eliminated # {}
    /\ Optimized # input
    /\ Optimized = optimize(input, FALSE, FALSE, TRUE)

-----------------------------------------------------------------------------
down_event(p) == CHOOSE e \in DownEvents : e.path = p

parent_path(p) == SubSeq(p, 1, Len(p) - 1)

proper_prefixes(p) == {SubSeq(p, 1, k) : k \in 0..(Len(p) - 1)}

(* C10: the connection of an edge is true only if the edge's parent is a   *)
(* sort or the parent's own inherited connection is true; with the initial *)
(* connection false the root's is false and so is every edge above the     *)
(* topmost sort of a path; and below an edge whose connection is false     *)
(* every edge is false as far as the next explicit sort.                   *)
C10_ConnectionInvariant ==
    \A e \in DownEvents :
       /\ e.path = <<>> => ~e.conn
       /\ (e.path # <<>> /\ e.conn) =>
             LET parent == down_event(parent_path(e.path))
             IN  is_sort(parent.plan) \/ parent.conn
       /\ (\A q \in proper_prefixes(e.path) : ~is_sort(down_event(q).plan))
             => ~e.conn
       /\ \A q \in proper_prefixes(e.path) :
             (/\ ~down_event(q).conn
              /\ \A r \in proper_prefixes(e.path) :
                    Len(r) >= Len(q) => ~is_sort(down_event(r).plan))
                => ~e.conn

C10_Witness ==
    /\ Done
    /\ \E e \in DownEvents, f \in DownEvents, g \in DownEvents :
          /\ g.path = parent_path(f.path) /\ f.path = parent_path(e.path)
          /\ ~g.conn /\ is_sort(g.plan)
          /\ f.conn /\ ~is_sort(f.plan) /\ ~is_repartition(f.plan)
          /\ ~is_coalesce_partitions(f.plan)
          /\ ~e.conn

-----------------------------------------------------------------------------
ErrorEvents == {log[i] : i \in {j \in 1..Len(log) : log[j].step \in {"map_children_err", "up_err"}}}

(* The up step on the node of this event calls a constructor that fails.   *)
construction_fails(e) ==
    /\ ~is_sort(e.plan)
    /\ IF e.conn /\ is_repartition(e.plan) /\ ~maintains_input_order(e.plan)[1]
          /\ (is_spr_better \/ prefer_existing_sort \/ unbounded_output(e.plan))
       THEN fault = "try_new"
       ELSE /\ ~(e.conn /\ is_coalesce_partitions(e.plan)
                 /\ (is_spm_better \/ prefer_existing_sort \/ unbounded_output(e.plan)))
            /\ \E i \in 1..Len(e.alts) : is_some(e.alts[i])
            /\ \/ fault = "with_new_children"
               \/ fault = "try_new" /\ is_repartition(e.plan)

(* C11: when the construction of a replacement operator fails at a node    *)
(* (RepartitionExec::try_new in the repartition case, with_new_children in *)
(* the last case), the up step returns the error, no further node is       *)
(* processed, the run ends with the error and returns no plan, and no up   *)
(* step passes a node on whose construction failed.                        *)
C11_ErrorAbort ==
    /\ \A i \in 1..Len(log) :
          /\ log[i].step = "up" => ~construction_fails(log[i])
          /\ log[i].step = "up_err" => construction_fails(log[i])
          /\ log[i].step \in {"map_children_err", "up_err"} =>
                 i = Len(log) /\ pc = "error"
    /\ pc = "error" => /\ result = None
                       /\ rootAlt = None
                       /\ ErrorEvents # {}
    /\ Done => ErrorEvents = {}

C11_Witness ==
    /\ pc = "error"
    /\ fault = "with_new_children"
    /\ log[Len(log)].step = "up_err"
    /\ \E e \in UpEvents : is_some(e.alt)
    /\ result = None

-----------------------------------------------------------------------------
RECURSIVE paths(_)
paths(plan) ==
    {<<>>} \cup UNION {{<<i>> \o q : q \in paths(plan.children[i])} :
                          i \in 1..Len(plan.children)}

calls(step, p) == Cardinality({i \in 1..Len(log) : log[i].step = step /\ log[i].path = p})

AtMostOnce ==
    \A p \in paths(input) : calls("down", p) <= 1 /\ calls("up", p) <= 1

ExactlyOnce ==
    /\ \A p \in paths(input) : calls("down", p) = 1 /\ calls("up", p) = 1
    /\ Len(log) = 2 * Cardinality(paths(input))

(* C12: on every plan tree the run terminates, and it has then called the  *)
(* down step exactly once and the up step exactly once for every node of   *)
(* the tree; no node is met twice on the way.                              *)
C12_Termination == []AtMostOnce /\ <>[](Done /\ ExactlyOnce)

C12_Witness ==
    /\ Done
    /\ ExactlyOnce
    /\ Cardinality(paths(input)) >= 5
    /\ \E p \in paths(input) : Len(p) > 0 /\ p[Len(p)] = 2
    /\ Eliminated # {}

-----------------------------------------------------------------------------
up_event(p) == CHOOSE e \in UpEvents : e.path = p

(* C13: when the root of the plan is not a sort, the root of the optimized *)
(* plan is the root operator of the input over its optimized children, it  *)
(* is never an order preserving variant put in its place; the alternative  *)
(* returned for the root is dropped by the caller, and with the initial    *)
(* connection false there is none to drop.                                 *)
C13_RootHandling ==
    (Done /\ ~is_sort(input)) =>
        /\ Optimized = up_event(<<>>).plan
        /\ Optimized = map_children(input,
               [i \in 1..Len(input.children) |-> StandingAt(<<i>>)])
        /\ [Optimized EXCEPT !.children = input.children] = input
        /\ rootAlt = up_event(<<>>).alt
        /\ rootAlt = None

C13_Witness ==
    /\ Done
    /\ is_repartition(input)
    /\ ~maintains_input_order(input)[1]
    /\ prefer_existing_sort
    /\ Eliminated # {}
    /\ Optimized # input
    /\ ~is_order_preserving_variant(Optimized)

-----------------------------------------------------------------------------
(* C14: a node builds its alternative over the alternatives of its         *)
(* children and, where a child propagated none, over the child as it       *)
(* stands after its own up step (the replacement of a dropped sort); so    *)
(* for Sort(a) over Filter over Repartition(hash) over Repartition(round   *)
(* robin) over Sort(a) over Coalesce over Repartition(hash) over           *)
(* Repartition(round robin) over a source sorted by a, with                *)
(* prefer_existing_sort on or the source unbounded, one run drops both     *)
(* sorts and the coalesce stands as a sort preserving merge below the      *)
(* outer order preserving repartition.                                     *)
C14_NestedBothRedundant ==
    /\ \A e \in UpEvents :
          (~is_sort(e.plan) /\ is_some(e.alt)) =>
             /\ Len(e.alt[1].children) = Len(e.alts)
             /\ \A i \in 1..Len(e.alts) :
                   e.alt[1].children[i] =
                      unwrap_or(e.alts[i], after_up(Append(e.path, i)))
    /\ \A u \in BOOLEAN :
          (Done /\ input = test_with_inter_children_change_only(u)
                /\ (prefer_existing_sort \/ u)) =>
             /\ Optimized = expected_with_inter_children_change_only(u)
             /\ Cardinality(Eliminated) = 2
             /\ \A n \in nodes(Optimized) : ~is_sort(n)
             /\ Len(log) = 2 * Cardinality(paths(input))

C14_Witness ==
    /\ Done
    /\ input = test_with_inter_children_change_only(FALSE)
    /\ prefer_existing_sort /\ ~is_spr_better /\ ~is_spm_better
    /\ Cardinality(Eliminated) = 2
    /\ \E n \in nodes(Optimized) :
          /\ is_order_preserving_variant(n)
          /\ \E k \in nodes(n) : k.kind = "SortPreservingMerge"

-----------------------------------------------------------------------------
(* The sorts that rejected an alternative below a sort that was dropped. *)
RejectedBelowEliminated ==
    {r \in Rejected : \E e \in Eliminated : e.path \in proper_prefixes(r.path)}

(* The alternative is the plan itself from every sort of the plan down. *)
RECURSIVE same_below_sorts(_, _)
same_below_sorts(plan, alternative) ==
    IF is_sort(plan)
    THEN alternative = plan
    ELSE /\ Len(alternative.children) = Len(plan.children)
         /\ \A i \in 1..Len(plan.children) :
               same_below_sorts(plan.children[i], alternative.children[i])

(* C15 as claimed: when an inner sort rejects the alternative below it and *)
(* a sort above it is dropped, the inner sort and its whole original       *)
(* subtree stand unchanged in the optimized plan.                          *)
C15_Original ==
    Done => \A r \in RejectedBelowEliminated :
               StandingAt(r.path) = subtree_at(input, r.path)

(* C15 amended: when an inner sort rejects the alternative below it and a  *)
(* sort above it is dropped, the inner sort stands in the optimized plan   *)
(* over its child subtree as the up steps of the children left it (the     *)
(* original plain coalesce and repartitions, except that a sort dropped    *)
(* inside it has given way to its replacement); an alternative never       *)
(* reaches across a sort: from every sort of the plan down it is the plan. *)
C15_NestedInnerNeeded ==
    /\ \A e \in UpEvents : is_some(e.alt) => same_below_sorts(e.plan, e.alt[1])
    /\ Done => \A r \in RejectedBelowEliminated :
                  /\ r.plan = after_up(r.path)
                  /\ StandingAt(r.path) = r.plan

C15_Witness ==
    /\ Done
    /\ \E r \in RejectedBelowEliminated :
          /\ required_ordering(r.plan) # <<>>
          /\ StandingAt(r.path) # subtree_at(input, r.path)
          /\ \E n \in nodes(StandingAt(r.path)) : order_losing(n)

-----------------------------------------------------------------------------
(* Every repartition that loses the order, met from plan down the edges    *)
(* of operators that maintain the order or are replaceable, as far as the  *)
(* next sort, is an order preserving one at the same place of replacement. *)
RECURSIVE all_replaced(_, _)
all_replaced(plan, replacement) ==
    \/ is_sort(plan)
    \/ /\ (is_repartition(plan) /\ ~maintains_input_order(plan)[1])
              => is_order_preserving_variant(replacement)
       /\ Len(replacement.children) = Len(plan.children)
       /\ \A i \in 1..Len(plan.children) :
             (\/ maintains_input_order(plan)[i]
              \/ is_repartition(plan)
              \/ is_coalesce_partitions(plan))
                => all_replaced(plan.children[i], replacement.children[i])

(* A repartition that loses the order is met from plan down such edges. *)
RECURSIVE has_eligible_repartitions(_, _)
has_eligible_repartitions(plan, k) ==
    /\ ~is_sort(plan)
    /\ \/ k <= 1 /\ is_repartition(plan) /\ ~maintains_input_order(plan)[1]
       \/ \E i \in 1..Len(plan.children) :
             /\ \/ maintains_input_order(plan)[i]
                \/ is_repartition(plan)
                \/ is_coalesce_partitions(plan)
             /\ has_eligible_repartitions(plan.children[i],
                    IF is_repartition(plan) /\ ~maintains_input_order(plan)[1]
                    THEN k - 1 ELSE k)

-----------------------------------------------------------------------------
(* C17: at a sort the down step gives true for the edge to its child       *)
(* whatever connection the sort inherited, false included.                 *)
C17_DownAtSort ==
    \A e \in DownEvents : is_sort(e.plan) => e.conns = <<TRUE>>

C17_Witness ==
    /\ \E e \in DownEvents : is_sort(e.plan) /\ ~e.conn /\ e.conns = <<TRUE>>
    /\ \E e \in DownEvents : is_sort(e.plan) /\ e.conn /\ e.conns = <<TRUE>>

(* C18: at any other node the down step gives one flag per child (none    *)
(* for a leaf), and flag i is: inherited, and the node maintains the order *)
(* of child i or is a repartition or a coalesce-partitions; so those two   *)
(* hand the inherited flag down unchanged.                                 *)
C18_DownAtOther ==
    \A e \in DownEvents :
       ~is_sort(e.plan) =>
          /\ Len(e.conns) = Len(e.plan.children)
          /\ \A i \in 1..Len(e.conns) :
                e.conns[i] = (e.conn /\ (\/ maintains_input_order(e.plan)[i]
                                         \/ e.plan.kind = "Repartition"
                                         \/ e.plan.kind = "CoalescePartitions"))
          /\ (e.plan.kind \in {"Repartition", "CoalescePartitions"})
                => e.conns = <<e.conn>>

C18_Witness ==
    /\ \E e \in DownEvents :
          /\ is_repartition(e.plan) /\ ~maintains_input_order(e.plan)[1]
          /\ e.conn /\ e.conns = <<TRUE>>
    /\ \E e \in DownEvents : e.plan.kind = "HashJoin" /\ e.conns = <<FALSE, TRUE>>
    /\ \E e \in DownEvents : e.plan.kind = "Source" /\ e.conns = <<>>
    /\ \E e \in DownEvents : is_repartition(e.plan) /\ ~e.conn /\ e.conns = <<FALSE>>

-----------------------------------------------------------------------------
SortUpEvents == {e \in UpEvents : is_sort(e.plan)}

alternative_satisfies(e) ==
    ordering_satisfy(equivalence_properties(e.alts[1][1]),
                     unwrap_or(output_ordering(e.plan), <<>>))

(* C19: a sort never propagates an alternative. With no alternative from   *)
(* its child the sort is kept; with one that satisfies the ordering of the *)
(* sort the alternative stands in the place of the sort; with one that     *)
(* does not, the sort is kept. The outcome is the same for every value of  *)
(* the connection of the sort, of prefer_existing_sort and of the two kind *)
(* switches, and for bounded and unbounded sources.                        *)
C19_UpAtSort ==
    \A e \in SortUpEvents :
       /\ e.alt = None
       /\ ~is_some(e.alts[1]) => e.node = e.plan
       /\ (is_some(e.alts[1]) /\ alternative_satisfies(e)) => e.node = e.alts[1][1]
       /\ (is_some(e.alts[1]) /\ ~alternative_satisfies(e)) => e.node = e.plan
       /\ \A c, s1, s2, p \in BOOLEAN :
             LET u == replace_with_order_preserving_variants_up(e.plan, c,
                          e.alts, s1, s2, p)
             IN  u.node = e.node /\ u.alt = e.alt
       /\ \A b \in BOOLEAN :
             LET alts == [i \in 1..Len(e.alts) |->
                            IF is_some(e.alts[i])
                            THEN Some(with_sources(e.alts[i][1], b)) ELSE None]
                 u == replace_with_order_preserving_variants_up(
                          with_sources(e.plan, b), e.conn, alts,
                          is_spr_better, is_spm_better, prefer_existing_sort)
             IN  u.node = with_sources(e.node, b) /\ u.alt = None

C19_Witness ==
    /\ \E e \in SortUpEvents : ~is_some(e.alts[1]) /\ e.node = e.plan
    /\ \E e \in SortUpEvents :
          is_some(e.alts[1]) /\ alternative_satisfies(e) /\ e.node # e.plan
    /\ \E e \in SortUpEvents :
          is_some(e.alts[1]) /\ ~alternative_satisfies(e) /\ e.node = e.plan

-----------------------------------------------------------------------------
(* The up steps at a repartition that take the repartition case. *)
ReplacedRepartitionEvents ==
    {e \in UpEvents :
        /\ is_repartition(e.plan)
        /\ e.conn
        /\ ~maintains_input_order(e.plan)[1]
        /\ (is_spr_better \/ prefer_existing_sort \/ unbounded_output(e.plan))}

(* The up steps at a repartition that maintains the order of its input. *)
MaintainingRepartitionEvents ==
    {e \in UpEvents : is_repartition(e.plan) /\ maintains_input_order(e.plan)[1]}

(* The parts of C20 that do not speak of the preserve_order flag. *)
up_at_repartition_frame ==
    /\ \A e \in ReplacedRepartitionEvents :
          /\ e.node = e.plan
          /\ is_some(e.alt)
          /\ is_repartition(e.alt[1])
          /\ output_partitioning(e.alt[1]) = output_partitioning(e.plan)
          /\ e.alt[1].children = <<unwrap_or(e.alts[1], e.plan.children[1])>>
    /\ \A e \in MaintainingRepartitionEvents :
          /\ e.node = e.plan
          /\ ~is_some(e.alts[1]) => e.alt = None
          /\ is_some(e.alts[1]) =>
                /\ is_some(e.alt)
                /\ [e.alt[1] EXCEPT !.children = e.plan.children] = e.plan

-----------------------------------------------------------------------------
(* The up steps at a coalesce-partitions that take the coalesce case. *)
ReplacedCoalesceEvents ==
    {e \in UpEvents :
        /\ is_coalesce_partitions(e.plan)
        /\ e.conn
        /\ (is_spm_better \/ prefer_existing_sort \/ unbounded_output(e.plan))}

(* C21: a coalesce-partitions reached with a true connection, with         *)
(* is_spm_better or prefer_existing_sort or an unbounded output, is        *)
(* returned unchanged; it takes the alternative of its child if there is   *)
(* one and the child otherwise; when that child has an output ordering it  *)
(* propagates a sort preserving merge on that whole ordering over that     *)
(* child, and when it has none it propagates nothing, dropping the         *)
(* alternative the child had propagated.                                   *)
C21_UpAtCoalesce ==
    \A e \in ReplacedCoalesceEvents :
       LET child == unwrap_or(e.alts[1], e.plan.children[1])
           o == output_ordering(child)
       IN  /\ e.node = e.plan
           /\ ~e.transformed
           /\ e.plan.children[1] = after_up(Append(e.path, 1))
           /\ is_some(o) =>
                 e.alt = Some([kind |-> "SortPreservingMerge", expr |-> o[1],
                               scheme |-> "", n |-> 0, flag |-> FALSE,
                               children |-> <<child>>])
           /\ ~is_some(o) => e.alt = None

C21_Witness ==
    \E e \in ReplacedCoalesceEvents :
       /\ is_some(e.alts[1])
       /\ is_some(e.alt)
       /\ e.alt[1].kind = "SortPreservingMerge"
       /\ e.alt[1].expr # <<>>
       /\ e.alt[1].children = <<e.alts[1][1]>>
       /\ ~unbounded_output(e.plan) /\ ~prefer_existing_sort

-----------------------------------------------------------------------------
(* The up steps that take the last case: the node is no sort and meets     *)
(* neither the condition of the repartition case nor that of the coalesce  *)
(* case.                                                                   *)
OtherUpEvents ==
    {e \in UpEvents : ~is_sort(e.plan)} \ (ReplacedRepartitionEvents \cup ReplacedCoalesceEvents)

carries_order(plan) == plan.kind \in {"Filter", "CoalesceBatches"}

(* C22: a node of the last case is returned unchanged. When a child        *)
(* propagated an alternative it propagates itself over the alternatives of *)
(* its children, the child itself where it propagated none, the children   *)
(* in their order; when no child did it propagates nothing. So in the two  *)
(* tests with extra steps the filter and the coalesce-batches stand        *)
(* unchanged over the order preserving repartition once the sort is gone.  *)
C22_UpAtOther ==
    /\ \A e \in OtherUpEvents :
          /\ e.node = e.plan
          /\ ~e.transformed
          /\ (\E i \in 1..Len(e.alts) : is_some(e.alts[i])) =>
                 e.alt = Some([e.plan EXCEPT !.children =
                                  [i \in 1..Len(e.plan.children) |->
                                      unwrap_or(e.alts[i], e.plan.children[i])]])
          /\ (\A i \in 1..Len(e.alts) : ~is_some(e.alts[i])) => e.alt = None
    /\ \A u \in BOOLEAN :
          (Done /\ (prefer_existing_sort \/ u)) =>
             /\ input = test_replace_multiple_input_repartition_with_extra_steps(u)
                   => Optimized =
                        expected_replace_multiple_input_repartition_with_extra_steps(u)
             /\ input = test_replace_multiple_input_repartition_with_extra_steps_2(u)
                   => Optimized =
                        expected_replace_multiple_input_repartition_with_extra_steps_2(u)

C22_Witness ==
    /\ Done
    /\ \E e \in Eliminated, f \in OtherUpEvents, g \in OtherUpEvents :
          /\ f.path = Append(e.path, 1)
          /\ g.path = Append(f.path, 1)
          /\ f.plan.kind = "CoalesceBatches"
          /\ g.plan.kind = "Filter"
          /\ is_some(g.alts[1])
          /\ is_order_preserving_variant(g.alts[1][1])
          /\ f.alt = Some(CoalesceBatchesExec(FilterExec(g.alts[1][1])))
          /\ e.node = f.alt[1]

-----------------------------------------------------------------------------
(* The operator of a node without its inputs. *)
operator_of(plan) == [plan EXCEPT !.children = <<>>]

(* The paths of the input plan that are not at or below a dropped sort. *)
OutsideEliminated ==
    {p \in paths(input) :
        p \notin EliminatedPaths /\ proper_prefixes(p) \cap EliminatedPaths = {}}

(* The dropped sorts with no dropped sort above them. *)
TopmostEliminated ==
    {e \in Eliminated : proper_prefixes(e.path) \cap EliminatedPaths = {}}

(* C23: the down step never reports a replaced node; the up step reports   *)
(* one only at a sort whose child propagated an alternative that satisfies *)
(* the sort. So in the optimized plan every node that is not at or below a *)
(* dropped sort is the operator the input has there, where the topmost     *)
(* dropped sorts were stand the alternatives they accepted, and when no    *)
(* sort is dropped the optimized plan is the input plan.                   *)
C23_RewrittenOnlyAtSorts ==
    /\ \A e \in DownEvents : ~e.transformed /\ e.node = e.plan
    /\ \A e \in UpEvents :
          (e.transformed \/ e.node # e.plan) =>
             /\ is_sort(e.plan)
             /\ is_some(e.alts[1])
             /\ alternative_satisfies(e)
             /\ e.node = e.alts[1][1]
    /\ Done =>
          /\ \A p \in OutsideEliminated :
                /\ operator_of(StandingAt(p)) = operator_of(subtree_at(input, p))
                /\ Len(StandingAt(p).children) = Len(subtree_at(input, p).children)
          /\ \A e \in TopmostEliminated : StandingAt(e.path) = e.node
          /\ Optimized = after_up(<<>>)
          /\ Eliminated = {} => Optimized = input

C23_Witness ==
    /\ Done
    /\ \E e \in TopmostEliminated :
          /\ e.path # <<>>
          /\ \E n \in nodes(e.node) : is_order_preserving_variant(n)
    /\ \E f \in UpEvents :
          /\ f.path \in OutsideEliminated
          /\ is_some(f.alt)
          /\ is_order_preserving_variant(f.alt[1])
          /\ ~is_order_preserving_variant(StandingAt(f.path))

-----------------------------------------------------------------------------
(* The place in the log of the call of a step on the node at path p, 0     *)
(* when there is none yet.                                                 *)
index_of(step, p) ==
    IF \E i \in 1..Len(log) : log[i].step = step /\ log[i].path = p
    THEN CHOOSE i \in 1..Len(log) : log[i].step = step /\ log[i].path = p
    ELSE 0

(* C24: the up step of a node runs after the down step of the node and     *)
(* after the up steps of all its children; it is given the alternatives of *)
(* the children in the order of the children; and the connection it is     *)
(* given is the one the down step of the node was given, which is the      *)
(* value the down step of the parent gave for this child, false at the     *)
(* root.                                                                   *)
C24_PhaseOrdering ==
    \A i \in 1..Len(log) :
       LET e == log[i]
           d == index_of("down", e.path)
       IN  /\ e.step = "up" =>
                 /\ 0 < d /\ d < i
                 /\ e.conn = log[d].conn
                 /\ Len(e.alts) = Len(log[d].plan.children)
                 /\ \A k \in 1..Len(log[d].plan.children) :
                       LET c == index_of("up", Append(e.path, k))
                       IN  /\ d < c /\ c < i
                           /\ e.alts[k] = log[c].alt
                           /\ e.plan.children[k] = log[c].node
                           /\ k > 1 => index_of("up", Append(e.path, k - 1)) < c
           /\ e.step = "down" =>
                 IF e.path = <<>>
                 THEN e.conn = FALSE
                 ELSE LET q == index_of("down", parent_path(e.path))
                      IN  /\ 0 < q /\ q < i
                          /\ e.conn = log[q].conns[e.path[Len(e.path)]]
                          /\ e.plan = log[q].plan.children[e.path[Len(e.path)]]

C24_Witness ==
    /\ Done
    /\ \E e \in UpEvents :
          /\ e.conn
          /\ Len(e.alts) = 2
          /\ ~is_some(e.alts[1]) /\ is_some(e.alts[2])
          /\ up_event(Append(e.path, 1)).conn # up_event(Append(e.path, 2)).conn

-----------------------------------------------------------------------------
(* The operator of the alternative is the operator of the plan, or its     *)
(* order preserving variant: the repartition of the same partitioning with *)
(* preserve_order on for a plain repartition, a sort preserving merge for  *)
(* a coalesce-partitions.                                                  *)
same_operator_or_variant(plan, alternative) ==
    \/ operator_of(alternative) = operator_of(plan)
    \/ /\ is_repartition(plan) /\ ~plan.flag
       /\ operator_of(alternative) = [operator_of(plan) EXCEPT !.flag = TRUE]
    \/ /\ is_coalesce_partitions(plan)
       /\ alternative.kind = "SortPreservingMerge"
       /\ operator_of(alternative) =
              operator_of(SortPreservingMergeExec(alternative.expr, plan))

(* The alternative has, place by place, the operators of the plan or their *)
(* variants, down to the same leaves.                                      *)
RECURSIVE same_up_to_variants(_, _)
same_up_to_variants(plan, alternative) ==
    /\ same_operator_or_variant(plan, alternative)
    /\ Len(alternative.children) = Len(plan.children)
    /\ \A i \in 1..Len(plan.children) :
          same_up_to_variants(plan.children[i], alternative.children[i])

(* C25: the alternative a node propagates is the subtree of the node as it *)
(* stands after the up steps of its descendants, but for repartitions that *)
(* have become order preserving ones of the same partitioning and          *)
(* coalesce-partitions that have become sort preserving merges: the same   *)
(* operators at the same places over the same leaves.                      *)
C25_AlternativeSameUpToVariants ==
    \A e \in UpEvents :
       is_some(e.alt) =>
          /\ e.plan = after_up(e.path)
          /\ same_up_to_variants(e.plan, e.alt[1])

C25_Witness ==
    \E e \in UpEvents :
       /\ is_some(e.alt)
       /\ is_coalesce_partitions(e.plan)
       /\ e.alt[1].kind = "SortPreservingMerge"
       /\ is_repartition(e.plan.children[1])
       /\ ~is_order_preserving_variant(e.plan.children[1])
       /\ is_order_preserving_variant(e.alt[1].children[1])
       /\ e.alt[1].children[1].scheme = "Hash"
       /\ e.alt[1].children[1].children = e.plan.children[1].children

-----------------------------------------------------------------------------
(* C26: a node that propagates an alternative is no sort and was reached   *)
(* with a true connection; a node that is no sort and was reached with a   *)
(* false connection gets no alternative from any child and propagates      *)
(* none. So, the traversal starting with a false connection, the           *)
(* alternative returned for the root is always absent.                     *)
C26_AlternativeNeedsConnection ==
    /\ \A e \in UpEvents :
          /\ is_some(e.alt) => (~is_sort(e.plan) /\ e.conn)
          /\ (~is_sort(e.plan) /\ ~e.conn) =>
                 /\ \A i \in 1..Len(e.alts) : e.alts[i] = None
                 /\ e.alt = None
    /\ Done => rootAlt = None

C26_Witness ==
    /\ Done
    /\ rootAlt = None
    /\ prefer_existing_sort
    /\ is_repartition(input) /\ ~maintains_input_order(input)[1]
    /\ output_ordering(input.children[1]) # None
    /\ \E e \in UpEvents : e.path = <<>> /\ ~e.conn /\ e.alt = None
    /\ \E e \in UpEvents : is_some(e.alt) /\ is_repartition(e.plan)

-----------------------------------------------------------------------------
(* The optimized plan is the plan with sorts taken out and repartitions    *)
(* and coalesce-partitions changed for their variants, nothing else.       *)
RECURSIVE derived_from(_, _)
derived_from(plan, optimized) ==
    \/ is_sort(plan) /\ derived_from(plan.children[1], optimized)
    \/ /\ same_operator_or_variant(plan, optimized)
       /\ Len(optimized.children) = Len(plan.children)
       /\ \A i \in 1..Len(plan.children) :
             derived_from(plan.children[i], optimized.children[i])

(* The leaves of a plan from left to right. *)
RECURSIVE leaves(_)
leaves(plan) ==
    IF Len(plan.children) = 0 THEN <<plan>>
    ELSE IF Len(plan.children) = 1 THEN leaves(plan.children[1])
    ELSE leaves(plan.children[1]) \o leaves(plan.children[2])

(* The operators of a plan other than sorts, repartitions, coalesces and   *)
(* merges, from the root down and left to right.                           *)
RECURSIVE other_operators(_)
other_operators(plan) ==
    (IF plan.kind \in {"Sort", "Repartition", "CoalescePartitions", "SortPreservingMerge"}
     THEN <<>> ELSE <<operator_of(plan)>>)
      \o (IF Len(plan.children) = 0 THEN <<>>
          ELSE IF Len(plan.children) = 1 THEN other_operators(plan.children[1])
          ELSE other_operators(plan.children[1]) \o other_operators(plan.children[2]))

RECURSIVE count_kind(_, _)
count_kind(plan, kind) ==
    (IF plan.kind = kind THEN 1 ELSE 0)
      + (IF Len(plan.children) = 0 THEN 0
         ELSE IF Len(plan.children) = 1 THEN count_kind(plan.children[1], kind)
         ELSE count_kind(plan.children[1], kind) + count_kind(plan.children[2], kind))

(* C27: the optimized plan is the input plan with sorts deleted and        *)
(* repartitions and coalesce-partitions changed for their order preserving *)
(* variants; no sort is added, no other operator is removed, duplicated or *)
(* reordered, no leaf is changed; the sorts are those of the input less    *)
(* the dropped ones, and each coalesce-partitions is still there or is a   *)
(* sort preserving merge.                                                  *)
C27_ShapeOfResult ==
    Done =>
       /\ derived_from(input, Optimized)
       /\ leaves(Optimized) = leaves(input)
       /\ other_operators(Optimized) = other_operators(input)
       /\ count_kind(Optimized, "Sort")
             = count_kind(input, "Sort") - Cardinality(Eliminated)
       /\ count_kind(Optimized, "Repartition") = count_kind(input, "Repartition")
       /\ count_kind(Optimized, "CoalescePartitions")
             + count_kind(Optimized, "SortPreservingMerge")
             = count_kind(input, "CoalescePartitions")
                 + count_kind(input, "SortPreservingMerge")

C27_Witness ==
    /\ Done
    /\ Optimized # input
    /\ Eliminated # {}
    /\ count_kind(Optimized, "Sort") >= 1
    /\ count_kind(Optimized, "SortPreservingMerge")
          > count_kind(input, "SortPreservingMerge")
    /\ \E n \in nodes(Optimized) : is_order_preserving_variant(n)

-----------------------------------------------------------------------------
(* C28 as claimed: the subtree that stands where a sort was dropped has    *)
(* the output partition count the sort had, one when the sort did not      *)
(* preserve the partitioning, for every input plan.                        *)
C28_Original ==
    \A e \in Eliminated :
       /\ partition_count(e.node) = partition_count(e.plan)
       /\ ~e.plan.flag => partition_count(e.node) = 1

(* C28 amended: the subtree that stands where a sort was dropped has the   *)
(* output partition count of the child subtree of the sort; that is the    *)
(* count the sort had when the sort preserved the partitioning or its      *)
(* child had one partition. A sort that does not preserve the partitioning *)
(* over a child of several partitions gives way to a subtree of several    *)
(* partitions.                                                             *)
C28_PartitionCount ==
    \A e \in Eliminated :
       /\ partition_count(e.node) = partition_count(e.plan.children[1])
       /\ (e.plan.flag \/ partition_count(e.plan.children[1]) = 1) =>
             partition_count(e.node) = partition_count(e.plan)
       /\ (~e.plan.flag /\ partition_count(e.plan.children[1]) > 1) =>
             partition_count(e.node) > partition_count(e.plan)

C28_Witness ==
    /\ \E e \in Eliminated :
          /\ ~e.plan.flag
          /\ required_ordering(e.plan) # <<>>
          /\ is_coalesce_partitions(e.plan.children[1])
          /\ e.node.kind = "SortPreservingMerge"
          /\ partition_count(e.node.children[1]) > 1
          /\ partition_count(e.node) = 1
    /\ \E e \in Eliminated :
          /\ e.plan.flag
          /\ required_ordering(e.plan) # <<>>
          /\ partition_count(e.plan) > 1
          /\ partition_count(e.node) = partition_count(e.plan)

-----------------------------------------------------------------------------
(* C29: with is_spr_better, is_spm_better and prefer_existing_sort false   *)
(* and every node bounded, no node propagates an alternative, no sort is   *)
(* dropped and the optimized plan is the input plan, whatever the plan; a  *)
(* sort that its input already satisfies stays as well.                    *)
C29_SwitchesOffNothingHappens ==
    (switches_off /\ all_bounded(input)) =>
        /\ \A e \in UpEvents :
              /\ e.alt = None
              /\ \A i \in 1..Len(e.alts) : e.alts[i] = None
              /\ e.node = e.plan
              /\ e.plan = subtree_at(input, e.path)
        /\ Eliminated = {}
        /\ Done => Optimized = input

C29_Witness ==
    /\ Done
    /\ switches_off
    /\ all_bounded(input)
    /\ \E n \in nodes(input) :
          /\ is_sort(n)
          /\ required_ordering(n) # <<>>
          /\ n.children[1].kind = "Source"
          /\ output_ordering(n.children[1]) = Some(required_ordering(n))
    /\ \E e \in UpEvents : e.conn /\ is_coalesce_partitions(e.plan)
    /\ Optimized = input

-----------------------------------------------------------------------------
(* The up steps at a sort that has no ordering of its own: unwrap_or gives *)
(* the empty requirement for it.                                           *)
SortWithoutOrderingEvents ==
    {e \in SortUpEvents : unwrap_or(output_ordering(e.plan), <<>>) = <<>>}

====
